---- MODULE Spec2Model ----
(***************************************************************************)
(* Moderation platform: the upload queue with its dead-letter queue, the   *)
(* start-moderation Lambda (the Dispatcher) and the two Step Functions      *)
(* state machines (text and image moderation).                              *)
(*                                                                          *)
(* Strings the code inspects character by character (object keys) are      *)
(* sequences of one-character strings; toxicity scores are integers in      *)
(* ten-thousandths (0.9 is 9000).                                           *)
(***************************************************************************)
EXTENDS Integers, Sequences, FiniteSets, TLC

(* ------------------------------ bounds --------------------------------- *)

\* Number of notifications the storage layer publishes in a run.
MaxNotifs == 2

\* Number of workflow executions the engines accept in a run.
MaxExecs == 2

\* The latest time of the wall clock in a run.
MaxTime == 2

\* The latest time, in seconds, of a run that follows the queue's timers.
MaxSeconds == 35

\* Number of requests the upload endpoint answers in a run.
MaxRequests == 2

Notifs == 1..MaxNotifs

(* --------------------------- character strings ------------------------- *)

\* body(v) with v the value of x, computed once.
Bind(x, body(_)) == CHOOSE r \in {body(v) : v \in {x}} : TRUE

UpperToLower ==
    [c \in {"A","B","C","D","E","F","G","H","I","J","K","L","M",
            "N","O","P","Q","R","S","T","U","V","W","X","Y","Z"} |->
        CASE c = "A" -> "a" [] c = "B" -> "b" [] c = "C" -> "c" [] c = "D" -> "d"
          [] c = "E" -> "e" [] c = "F" -> "f" [] c = "G" -> "g" [] c = "H" -> "h"
          [] c = "I" -> "i" [] c = "J" -> "j" [] c = "K" -> "k" [] c = "L" -> "l"
          [] c = "M" -> "m" [] c = "N" -> "n" [] c = "O" -> "o" [] c = "P" -> "p"
          [] c = "Q" -> "q" [] c = "R" -> "r" [] c = "S" -> "s" [] c = "T" -> "t"
          [] c = "U" -> "u" [] c = "V" -> "v" [] c = "W" -> "w" [] c = "X" -> "x"
          [] c = "Y" -> "y" [] c = "Z" -> "z"]

\* str.lower()
lower(s) ==
    [i \in 1..Len(s) |-> IF s[i] \in DOMAIN UpperToLower THEN UpperToLower[s[i]] ELSE s[i]]

\* str.rfind(c), 1-based; 0 when c does not occur (Python's -1).
rfind(s, c) ==
    LET hits == {i \in 1..Len(s) : s[i] = c}
    IN  IF hits = {} THEN 0 ELSE CHOOSE i \in hits : \A j \in hits : j <= i

\* os.path.splitext(p)[1] on a POSIX runtime: the extension starts at the last
\* dot of the last path component, and leading dots of that component do not
\* start an extension.
splitext_ext(p) ==
    LET sepIndex == rfind(p, "/")
        dotIndex == rfind(p, ".")
    IN  IF /\ dotIndex > sepIndex
           /\ \E j \in (sepIndex + 1)..(dotIndex - 1) : p[j] # "."
        THEN SubSeq(p, dotIndex, Len(p))
        ELSE <<>>

HexDigits ==
    {"0","1","2","3","4","5","6","7","8","9",
     "a","b","c","d","e","f","A","B","C","D","E","F"}

\* The character a percent escape stands for (the escapes of the printable
\* characters the keys of this model use; any other byte is shown as "?").
HexChar(h1, h2) ==
    LET hh == <<lower(<<h1>>)[1], lower(<<h2>>)[1]>>
    IN  CASE hh = <<"2", "0">> -> " "
          [] hh = <<"2", "5">> -> "%"
          [] hh = <<"2", "b">> -> "+"
          [] hh = <<"2", "e">> -> "."
          [] hh = <<"2", "f">> -> "/"
          [] OTHER -> "?"

\* A percent escape starts at position i of s.
EscapeAt(s, i) ==
    /\ s[i] = "%" /\ i + 2 <= Len(s)
    /\ s[i + 1] \in HexDigits /\ s[i + 2] \in HexDigits

\* urllib.parse.unquote: every %XX with two hex digits becomes its character,
\* anything else is kept. (The two digits of an escape are not '%', so no
\* escape starts inside another.)
unquote(s) ==
    LET InEscape(i) == \/ (i > 1 /\ EscapeAt(s, i - 1))
                       \/ (i > 2 /\ EscapeAt(s, i - 2))
        Kept(i) == ~InEscape(i)
        starts == SelectSeq([i \in 1..Len(s) |-> i], Kept)
    IN  [k \in 1..Len(starts) |->
            IF EscapeAt(s, starts[k])
            THEN HexChar(s[starts[k] + 1], s[starts[k] + 2])
            ELSE s[starts[k]]]

\* urllib.parse.unquote_plus: '+' becomes a space, then unquote.
unquote_plus(s) ==
    unquote([i \in 1..Len(s) |-> IF s[i] = "+" THEN " " ELSE s[i]])

(* ------------------------------ classifier ----------------------------- *)

\* Variant of TEXT_EXTENSIONS: '.pdf' counts as text.
TEXT_EXTENSIONS_with_pdf ==
    { <<".","t","x","t">>, <<".","m","d">>, <<".","p","d","f">> }

TEXT_EXTENSIONS == { <<".","t","x","t">>, <<".","m","d">> }

IMAGE_EXTENSIONS ==
    { <<".","j","p","g">>, <<".","j","p","e","g">>, <<".","p","n","g">>,
      <<".","g","i","f">>, <<".","b","m","p">>, <<".","w","e","b","p">> }

determine_file_type(object_key) ==
    LET ext == splitext_ext(lower(object_key))
    IN  IF ext \in TEXT_EXTENSIONS THEN "text"
        ELSE IF ext \in IMAGE_EXTENSIONS THEN "image"
        ELSE "unknown"

(* ------------------------------ deployment ----------------------------- *)

\* Variants of max_receive_count: one and two more receives.
max_receive_count_plus_one == 1 + 1
max_receive_count_plus_two == 1 + 2

\* dead_letter_queue=DeadLetterQueue(max_receive_count=1, ...) of upload-sqs.
max_receive_count == 1

\* Variant of dlq_alarm_threshold: the alarm needs a second message.
dlq_alarm_threshold_two == 1 + 1

\* Variant of visibility_timeout: shorter than the Lambda's timeout.
visibility_timeout_short == 1 + 1

\* visibility_timeout=Duration.seconds(30) of upload-sqs, in seconds.
visibility_timeout == 30

\* timeout=Duration.seconds(5) of the start-moderation Lambda, in seconds.
lambda_timeout == 5

\* threshold=1 of upload-dlq-alarm.
dlq_alarm_threshold == 1

\* The identifiers the stack hands to the Lambda's environment.
TextStateMachineArn == "ModerationPlatform-textModerationWorkflow"
ImageStateMachineArn == "ModerationPlatform-imageModerationWorkflow"
UploadBucket == "upload-bucket"

\* os.environ.get(...) of a variable that is not set.
None == "None"

(* ----------------------------- notifications --------------------------- *)

\* One record of an S3 notification. A missing (or empty) s3.object.key is
\* the empty sequence: `not object_key` is true of both.
S3Record(source, name, bucket, key) ==
    [eventSource |-> source, eventName |-> name, bucket |-> bucket, key |-> key]

K_txt == <<"a", ".", "t", "x", "t">>
K_png == <<"p", ".", "p", "n", "g">>
K_pdf == <<"d", ".", "p", "d", "f">>

E_text     == S3Record("aws:s3", "ObjectCreated:Put", UploadBucket, K_txt)
E_image    == S3Record("aws:s3", "ObjectCreated:Put", UploadBucket, K_png)
E_pdf      == S3Record("aws:s3", "ObjectCreated:Post", UploadBucket, K_pdf)
E_nokey    == S3Record("aws:s3", "ObjectCreated:Put", UploadBucket, <<>>)
E_removed  == S3Record("aws:s3", "ObjectRemoved:Delete", UploadBucket, K_txt)

\* The same image key under another creation event name and from another bucket.
E_image_copy == S3Record("aws:s3", "ObjectCreated:Copy", "other-bucket", K_png)

\* The bodies of the queue messages of a run (the Records list of each).
Bodies ==
    { <<E_text>>, <<E_image>>, <<E_pdf>>, <<E_nokey>>, <<E_removed>>,
      <<E_removed, E_image_copy>>, <<E_text, E_nokey>> }

\* The event names that start with 'ObjectCreated:' among the names S3 uses.
ObjectCreatedNames ==
    {"ObjectCreated:Put", "ObjectCreated:Post", "ObjectCreated:Copy",
     "ObjectCreated:CompleteMultipartUpload"}

\* What the object store answers to get_object followed by read().decode().
Payloads == {"hello", "you are worthless"}

GetObjectResults ==
    {[status |-> "ok", content |-> p] : p \in Payloads}
        \cup {[status |-> "ClientError", content |-> ""],
              [status |-> "UnicodeDecodeError", content |-> ""]}

\* What a workflow engine answers to start_execution.
StartExecutionResults == {"accepted", "error"}

(* -------------------------------- state -------------------------------- *)

VARIABLES
    TEXT_WORKFLOW_ARN,   \* the Lambda's environment
    IMAGE_WORKFLOW_ARN,
    msg,          \* per notification: where the message is, its body, its receive
                  \* count and the time it was last received
    inv,          \* per notification: the Dispatcher invocation that holds it
    log,          \* per notification: what the latest invocation did, per S3 record
    deliveries,   \* per notification: how often it was handed to the Dispatcher
    execs,        \* the workflow executions, in the order they were accepted
    alarm,        \* upload-dlq-alarm: its state and the notifications sent to the topic
    now,          \* the wall clock the engines stamp executions with
    api           \* the upload endpoint: the requests it got, each with its outcome

vars == <<TEXT_WORKFLOW_ARN, IMAGE_WORKFLOW_ARN, msg, inv, log, deliveries, execs, alarm,
          now, api>>

env == <<TEXT_WORKFLOW_ARN, IMAGE_WORKFLOW_ARN>>

(* ------------------------------ Dispatcher ----------------------------- *)

\* Variant of workflow_arn_not_set: the handler only stops when both are missing.
workflow_arn_not_set_both(textArn, imageArn) ==
    textArn \in {None, ""} /\ imageArn \in {None, ""}

\* `if not TEXT_WORKFLOW_ARN or not IMAGE_WORKFLOW_ARN`: a variable that is
\* not in the environment is None, and an empty one counts as missing too.
workflow_arn_not_set(textArn, imageArn) ==
    textArn \in {None, ""} \/ imageArn \in {None, ""}

\* Variant of is_allowed_event: the event name is not looked at.
is_allowed_event_any_name(s3_record) == s3_record.eventSource = "aws:s3"

\* Variant of is_allowed_event: the event source is not looked at.
is_allowed_event_any_source(s3_record) == s3_record.eventName \in ObjectCreatedNames

is_allowed_event(s3_record) ==
    /\ s3_record.eventSource = "aws:s3"
    /\ s3_record.eventName \in ObjectCreatedNames

\* The outcome of process_queue_record: the error it raised ("none" when it
\* returned), the file type it determined ("none" when it did not get there),
\* and the calls it made to the object store (each with the answer it got)
\* and to the workflow engines.
Outcome(error, fileType, gets, starts) ==
    [error |-> error, fileType |-> fileType, get_object |-> gets,
     start_execution |-> starts]

\* Variant of start_text_moderation_workflow: the text is not passed on.
start_text_moderation_workflow_no_text(text, language_code, arn) ==
    [stateMachineArn |-> arn,
     input |-> [inputText |-> "", languageCode |-> language_code]]

start_text_moderation_workflow(text, language_code, arn) ==
    [stateMachineArn |-> arn,
     input |-> [inputText |-> text, languageCode |-> language_code]]

\* Variant of start_image_moderation_workflow: it starts the text state machine.
start_image_moderation_workflow_text_arn(object_key, arn) ==
    [stateMachineArn |-> TextStateMachineArn, input |-> [objectKey |-> object_key]]

start_image_moderation_workflow(object_key, arn) ==
    [stateMachineArn |-> arn, input |-> [objectKey |-> object_key]]

\* Variant of start_execution_error: the error of the start call is caught.
start_execution_error_caught(started) == "none"

\* sfn_client.start_execution(...) in the start_* functions: the error it
\* raises, which nothing catches ("none" when the engine accepted the call).
start_execution_error(started) ==
    IF started = "accepted" THEN "none" ELSE "StartExecutionError"

\* Variant of not_object_key: no key counts as missing.
not_object_key_never(object_key) == FALSE

\* `if not object_key`: the key is missing or empty.
not_object_key(object_key) == object_key = <<>>

\* Variant of process_queue_record: the payload is fetched before the file
\* type is looked at, for every event with a key.
process_queue_record_fetches_first(record, got, started, textArn, imageArn) ==
    IF not_object_key(record.key)
    THEN Outcome("MissingObjectKey", "none", <<>>, <<>>)
    ELSE
      Bind(unquote_plus(record.key), LAMBDA object_key :
      Bind(determine_file_type(object_key), LAMBDA file_type :
        LET get == [Bucket |-> record.bucket, Key |-> object_key, answer |-> got]
        IN  IF got.status # "ok"
            THEN Outcome(got.status, file_type, <<get>>, <<>>)
            ELSE IF file_type = "text"
            THEN LET call == start_text_moderation_workflow(got.content, "en", textArn)
                 IN  Outcome(start_execution_error(started),
                             file_type, <<get>>, <<call>>)
            ELSE IF file_type = "image"
            THEN LET call == start_image_moderation_workflow(object_key, imageArn)
                 IN  Outcome(start_execution_error(started), file_type, <<get>>, <<call>>)
            ELSE Outcome("UnsupportedFileType", file_type, <<get>>, <<>>)))

\* process_queue_record(record), given what get_object and start_execution
\* answer when they are called.
process_queue_record(record, got, started, textArn, imageArn) ==
    IF not_object_key(record.key)
    THEN Outcome("MissingObjectKey", "none", <<>>, <<>>)
    ELSE
      Bind(unquote_plus(record.key), LAMBDA object_key :
      Bind(determine_file_type(object_key), LAMBDA file_type :
        IF file_type = "text"
        THEN LET get == [Bucket |-> record.bucket, Key |-> object_key,
                         answer |-> IF record.bucket = None
                                    THEN [status |-> "ParamValidationError",
                                          content |-> ""]
                                    ELSE got]
             IN  IF record.bucket = None \/ got.status # "ok"
                 THEN Outcome(IF record.bucket = None THEN "ParamValidationError"
                              ELSE got.status, file_type, <<get>>, <<>>)
                 ELSE LET call == start_text_moderation_workflow(got.content, "en", textArn)
                      IN  Outcome(start_execution_error(started),
                                  file_type, <<get>>, <<call>>)
        ELSE IF file_type = "image"
        THEN LET call == start_image_moderation_workflow(object_key, imageArn)
             IN  Outcome(start_execution_error(started), file_type, <<>>, <<call>>)
        ELSE Outcome("UnsupportedFileType", file_type, <<>>, <<>>)))

\* Variant of Skipped: the handler raises on an event it does not allow.
Skipped_raises == Outcome("EventNotAllowed", "skipped", <<>>, <<>>)

\* A record the handler skipped.
Skipped == Outcome("none", "skipped", <<>>, <<>>)

NoMessage == [loc |-> "none", body |-> <<>>, receiveCount |-> 0, receivedAt |-> 0]
NoInvocation == [status |-> "none", idx |-> 0, error |-> "none"]

(* --------------------------- workflow engines -------------------------- *)

\* Toxicity scores in ten-thousandths: the middle band, the two sides of the
\* threshold, and a score well above it.
Scores == {7000, 8999, 9000, 9500}

\* number_greater_than_equals('$.toxicityResult.ResultList[0].Toxicity', 0.9)
ToxicityThreshold == 9000

\* What detectModerationLabels and detectText return: the list of findings at or
\* above the service's own minimum confidence.
Findings == { <<>>, <<"finding">> }

\* Condition.is_present(path): the path leads to a value. The paths of this
\* model go through one field of a record and then to the first element of a list.
is_present(obj, field, list) ==
    /\ field \in DOMAIN obj
    /\ list \in DOMAIN obj[field]
    /\ Len(obj[field][list]) >= 1

\* A record with one more field (result_path on a state's input).
WithField(data, field, value) ==
    [f \in DOMAIN data \cup {field} |-> IF f = field THEN value ELSE data[f]]

\* A branch of the Parallel state: it starts on a copy of the state's input.
Branch(data) == [status |-> "RUNNING", data |-> data]

\* The Task states of the two state machines: each calls one evaluator.
Tasks == {"DetectToxicity", "DetectModerationLabels", "DetectText"}

\* The task of each branch of ParallelRekognitionTasks.
BranchTask == <<"DetectModerationLabels", "DetectText">>

\* The execution start_execution creates.
NewExecution(call, src, t) ==
    [arn |-> call.stateMachineArn,
     src |-> src,
     startTime |-> t,
     status |-> "RUNNING",
     state |-> IF call.stateMachineArn = TextStateMachineArn
               THEN "DetectToxicity" ELSE "ParallelRekognitionTasks",
     data |-> call.input,
     branches |-> IF call.stateMachineArn = TextStateMachineArn
                  THEN <<>> ELSE <<Branch(call.input), Branch(call.input)>>,
     invoked |-> [task \in Tasks |-> 0]]

\* The execution after one more invocation of a task's evaluator.
Invoke(e, task) == [e EXCEPT !.invoked[task] = @ + 1]

Running(e) == e.status = "RUNNING"

\* No state data.
NoData == <<>>

\* Variant of Ended: the state data stays with the ended execution.
Ended_keeps_data(e, status, error, branches) ==
    [e EXCEPT !.status = status, !.state = error, !.branches = branches]

\* An execution that ended without succeeding: it has an error and no output
\* (its state data is gone).
Ended(e, status, error, branches) ==
    [e EXCEPT !.status = status, !.state = error, !.data = NoData,
              !.branches = branches]

At(e, arn, state) == Running(e) /\ e.arn = arn /\ e.state = state

\* ---- text moderation workflow

\* Variant of evaluate_toxicity: strictly greater than the threshold.
evaluate_toxicity_strict(data) ==
    IF data.toxicityResult.ResultList[1].Toxicity > ToxicityThreshold
    THEN "HandleHighlyToxicContent"
    ELSE "ContentApproved"

\* The Choice state EvaluateToxicity: the state it moves to.
evaluate_toxicity(data) ==
    IF data.toxicityResult.ResultList[1].Toxicity >= ToxicityThreshold
    THEN "HandleHighlyToxicContent"
    ELSE "ContentApproved"

\* Variant of handle_highly_toxic_content: stamped with the time of the Pass state.
handle_highly_toxic_content_now(data, startTime) ==
    WithField(data, "moderationDecision",
              [decision |-> "REJECTED",
               reason |-> "Content contains highly toxic language",
               timestamp |-> now])

\* The Pass state HandleHighlyToxicContent: its output.
handle_highly_toxic_content(data, startTime) ==
    WithField(data, "moderationDecision",
              [decision |-> "REJECTED",
               reason |-> "Content contains highly toxic language",
               timestamp |-> startTime])

\* Variants of handle_highly_toxic_content_next: back to the Choice state, and
\* to the approving Succeed state.
handle_highly_toxic_content_next_loop == "EvaluateToxicity"
handle_highly_toxic_content_next_approved == "ContentApproved"

\* The state HandleHighlyToxicContent moves to.
handle_highly_toxic_content_next == "ModerationComplete"

\* ---- image moderation workflow

\* The Choice state EvaluateModeration: the state it moves to.
evaluate_moderation(data) ==
    IF \/ is_present(data.parallelResults[1], "moderationLabelsResult", "ModerationLabels")
       \/ is_present(data.parallelResults[1], "textDetectionResult", "TextDetections")
    THEN "HandleInappropriateContent"
    ELSE "ImageApproved"

\* Variant of handle_inappropriate_content: the reason of the text workflow.
handle_inappropriate_content_text_reason(data, startTime) ==
    WithField(data, "moderationDecision",
              [decision |-> "REJECTED",
               reason |-> "Content contains highly toxic language",
               timestamp |-> startTime])

\* The Pass state HandleInappropriateContent: its output.
handle_inappropriate_content(data, startTime) ==
    WithField(data, "moderationDecision",
              [decision |-> "REJECTED",
               reason |-> "Image contains inappropriate content",
               timestamp |-> startTime])

handle_inappropriate_content_next == "ImageModerationComplete"

\* The Succeed states of the two workflows.
SucceedStates ==
    {"ContentApproved", "ModerationComplete", "ImageApproved", "ImageModerationComplete"}

\* The outcome of an execution: ImageApproved and ContentApproved are the
\* Succeed states of the approving path, ImageModerationComplete and
\* ModerationComplete those of the rejecting path.
Succeeded(e) == e.status = "SUCCEEDED"
Approved(e) == Succeeded(e) /\ e.state \in {"ContentApproved", "ImageApproved"}
Rejected(e) == Succeeded(e) /\ e.state \in {"ModerationComplete", "ImageModerationComplete"}
Failed(e) == e.status \in {"FAILED", "TIMED_OUT"}
Terminal(e) == ~Running(e)

\* The moderationDecision of an execution's state data, if it has one.
HasDecision(e) == "moderationDecision" \in DOMAIN e.data

(* --------------------------- upload endpoint --------------------------- *)

\* UPLOAD_BUCKET of the endpoint's Lambda, as the stack sets it.
UPLOAD_BUCKET == UploadBucket

\* A JSON object with the given fields; a field that is not present is
\* what body.get(field) answers None for.
JsonObject(fields, values) == [f \in fields |-> values[f]]

\* What a request may carry as fileName: an empty name, names with a text,
\* an image and an unsupported suffix, and a name that is only a suffix.
FileNames == { <<>>, K_txt, K_png, K_pdf, <<".", "m", "d">> }

ContentTypes ==
    { <<>>, <<"t", "e", "x", "t", "/", "p", "l", "a", "i", "n">>,
      <<"i", "m", "a", "g", "e", "/", "p", "n", "g">> }

\* The JSON objects a request body may hold.
RequestObjects ==
    { JsonObject(fields, [fileName |-> fn, contentType |-> ct]) :
         fields \in SUBSET {"fileName", "contentType"},
         fn \in FileNames, ct \in ContentTypes }

\* The API Gateway events: 'body' is a JSON object's text, text that is not
\* JSON, null (a request without body), or the key is absent.
ApiEvents ==
    {[body |-> "json", json |-> o] : o \in RequestObjects}
        \cup {[body |-> b, json |-> JsonObject({}, <<>>)] :
                 b \in {"absent", "null", "malformed"}}

\* str(uuid.uuid4()), of which the run sees two values.
Uuids == { <<"u", "1">>, <<"u", "2">> }

\* What s3_client.generate_presigned_url does: it signs, or raises ClientError.
SignResults == {"signed", "ClientError"}

\* `not value` of a field read with body.get: absent or empty.
not_field(body, field) == field \notin DOMAIN body \/ body[field] = <<>>

\* The handler raised.
Raised(exception, calls) ==
    [raised |-> exception, statusCode |-> 0, body |-> JsonObject({}, <<>>),
     generate_presigned_url |-> calls]

build_http_response(code, body, calls) ==
    [raised |-> "none", statusCode |-> code, body |-> body,
     generate_presigned_url |-> calls]

\* f'{uuid.uuid4()}-{file_name}'
object_key_of(uuid4, file_name) == uuid4 \o <<"-">> \o file_name

\* lambda_handler of the endpoint, given the uuid drawn and what the signer does.
generate_presigned_url_lambda_handler(event, uuid4, signed) ==
    IF UPLOAD_BUCKET \in {None, ""}
    THEN Raised("ValueError", <<>>)
    ELSE IF event.body = "null"
    THEN Raised("TypeError", <<>>)
    ELSE IF event.body = "malformed"
    THEN Raised("JSONDecodeError", <<>>)
    ELSE
      LET body == IF event.body = "absent" THEN JsonObject({}, <<>>) ELSE event.json
      IN  IF not_field(body, "fileName") \/ not_field(body, "contentType")
          THEN build_http_response(
                  400, [error |-> "Missing required parameters: fileName and contentType"],
                  <<>>)
          ELSE
            LET object_key == object_key_of(uuid4, body.fileName)
                call == [Bucket |-> UPLOAD_BUCKET, Key |-> object_key,
                         ContentType |-> body.contentType, ExpiresIn |-> 3600]
            IN  IF signed = "ClientError"
                THEN Raised("ClientError", <<call>>)
                ELSE build_http_response(
                        200, [presignedUrl |-> <<UPLOAD_BUCKET, object_key>>,
                              objectKey |-> object_key],
                        <<call>>)

\* The status the client of the REST API sees: the handler's, or 502 when
\* the Lambda proxy integration got an error instead of a response.
HttpStatus(outcome) ==
    IF outcome.raised = "none" THEN outcome.statusCode ELSE 502

(* --------------------------------- Init -------------------------------- *)

\* The stack as deployed: both state machine identifiers are in the Lambda's
\* environment, the queues are empty, nothing runs.
Init ==
    /\ TEXT_WORKFLOW_ARN = TextStateMachineArn
    /\ IMAGE_WORKFLOW_ARN = ImageStateMachineArn
    /\ msg = [n \in Notifs |-> NoMessage]
    /\ inv = [n \in Notifs |-> NoInvocation]
    /\ log = [n \in Notifs |-> <<>>]
    /\ deliveries = [n \in Notifs |-> 0]
    /\ execs = <<>>
    /\ alarm = [state |-> "OK", notified |-> 0]
    /\ now = 0
    /\ api = <<>>

(* ------------------------- queue and Dispatcher ------------------------ *)

\* The storage layer (or any sender) puts a notification on the upload queue.
S3Notify(n, body) ==
    /\ msg[n].loc = "none"
    /\ \A m \in 1..(n - 1) : msg[m].loc # "none"
    /\ msg' = [msg EXCEPT ![n] = [NoMessage EXCEPT !.loc = "queue", !.body = body]]
    /\ UNCHANGED <<env, api, inv, log, deliveries, execs, alarm, now>>

\* The event source mapping receives the message (a batch of one) and invokes
\* lambda_handler with it; the handler first checks its environment.
Receive(n) ==
    /\ msg[n].loc = "queue"
    /\ msg[n].receiveCount < max_receive_count
    /\ msg' = [msg EXCEPT ![n].loc = "inflight", ![n].receiveCount = @ + 1,
                           ![n].receivedAt = now]
    /\ deliveries' = [deliveries EXCEPT ![n] = @ + 1]
    /\ log' = [log EXCEPT ![n] = <<>>]
    /\ inv' = [inv EXCEPT ![n] =
                 IF workflow_arn_not_set(TEXT_WORKFLOW_ARN, IMAGE_WORKFLOW_ARN)
                 THEN [status |-> "failed", idx |-> 0, error |-> "WorkflowArnNotSet"]
                 ELSE [status |-> "running", idx |-> 1, error |-> "none"]]
    /\ UNCHANGED <<env, api, execs, alarm, now>>

\* Variant of MoveToDeadLetterQueue: the executions the notification started
\* are stopped when it is dead-lettered.
MoveToDeadLetterQueue_aborts(n) ==
    /\ msg[n].loc = "queue"
    /\ msg[n].receiveCount >= max_receive_count
    /\ msg' = [msg EXCEPT ![n].loc = "dlq"]
    /\ execs' = [e \in 1..Len(execs) |->
                   IF execs[e].src[1] = n /\ Running(execs[e])
                   THEN Ended(execs[e], "ABORTED", "States.Aborted", <<>>)
                   ELSE execs[e]]
    /\ UNCHANGED <<env, api, inv, log, deliveries, alarm, now>>

\* A visible message that was already received max_receive_count times is
\* moved to the dead-letter queue instead of being received again.
MoveToDeadLetterQueue(n) ==
    /\ msg[n].loc = "queue"
    /\ msg[n].receiveCount >= max_receive_count
    /\ msg' = [msg EXCEPT ![n].loc = "dlq"]
    /\ UNCHANGED <<env, api, inv, log, deliveries, execs, alarm, now>>

\* Variant of HandleRecord: the invocation holds a batch of several messages,
\* so an exception ends it for every message that is in flight.
HandleRecord_shared_batch(n, got, started) ==
    /\ inv[n].status = "running"
    /\ inv[n].idx <= Len(msg[n].body)
    /\ \E answer \in {IF Len(execs) >= MaxExecs THEN "error" ELSE started} :
       \E o \in {LET s3_record == msg[n].body[inv[n].idx]
                 IN  IF is_allowed_event(s3_record)
                     THEN process_queue_record(s3_record, got, answer,
                                               TEXT_WORKFLOW_ARN, IMAGE_WORKFLOW_ARN)
                     ELSE Skipped} :
          /\ log' = [log EXCEPT ![n] = Append(@, o)]
          /\ inv' = IF o.error = "none"
                    THEN [inv EXCEPT ![n].idx = @ + 1]
                    ELSE [m \in Notifs |->
                            IF inv[m].status = "running"
                            THEN [inv[m] EXCEPT !.status = "failed", !.error = o.error]
                            ELSE inv[m]]
          /\ execs' = IF o.start_execution # <<>> /\ answer = "accepted"
                      THEN Append(execs, NewExecution(o.start_execution[1],
                                                      <<n, inv[n].idx>>, now))
                      ELSE execs
    /\ UNCHANGED <<env, api, msg, deliveries, alarm, now>>

\* One turn of the handler's loop over the S3 records of the message: skip
\* the record, or process_queue_record; an exception ends the invocation.
HandleRecord(n, got, started) ==
    /\ inv[n].status = "running"
    /\ inv[n].idx <= Len(msg[n].body)
    /\ \E answer \in {IF Len(execs) >= MaxExecs THEN "error" ELSE started} :
       \E o \in {LET s3_record == msg[n].body[inv[n].idx]
                 IN  IF is_allowed_event(s3_record)
                     THEN process_queue_record(s3_record, got, answer,
                                               TEXT_WORKFLOW_ARN, IMAGE_WORKFLOW_ARN)
                     ELSE Skipped} :
          /\ log' = [log EXCEPT ![n] = Append(@, o)]
          /\ inv' = [inv EXCEPT ![n] =
                       IF o.error = "none"
                       THEN [@ EXCEPT !.idx = @ + 1]
                       ELSE [@ EXCEPT !.status = "failed", !.error = o.error]]
          /\ execs' = IF o.start_execution # <<>> /\ answer = "accepted"
                      THEN Append(execs, NewExecution(o.start_execution[1],
                                                      <<n, inv[n].idx>>, now))
                      ELSE execs
    /\ UNCHANGED <<env, api, msg, deliveries, alarm, now>>

\* Variant of HandlerReturn: the handler raises when it processed no event.
HandlerReturn_needs_event(n) ==
    /\ inv[n].status = "running"
    /\ inv[n].idx > Len(msg[n].body)
    /\ IF log[n] = <<>>
       THEN /\ inv' = [inv EXCEPT ![n].status = "failed", ![n].error = "NoRecords"]
            /\ msg' = msg
       ELSE /\ inv' = [inv EXCEPT ![n].status = "succeeded"]
            /\ msg' = [msg EXCEPT ![n].loc = "deleted"]
    /\ UNCHANGED <<env, api, log, deliveries, execs, alarm, now>>

\* Variant of HandlerReturn: the handler awaits the executions it started and
\* raises when one of them did not succeed.
HandlerReturn_awaits(n) ==
    LET started == {e \in 1..Len(execs) : execs[e].src[1] = n}
    IN  /\ inv[n].status = "running"
        /\ inv[n].idx > Len(msg[n].body)
        /\ \A e \in started : Terminal(execs[e])
        /\ IF \E e \in started : Failed(execs[e])
           THEN /\ inv' = [inv EXCEPT ![n].status = "failed",
                                      ![n].error = "ExecutionFailed"]
                /\ msg' = msg
           ELSE /\ inv' = [inv EXCEPT ![n].status = "succeeded"]
                /\ msg' = [msg EXCEPT ![n].loc = "deleted"]
        /\ UNCHANGED <<env, api, log, deliveries, execs, alarm, now>>

\* The handler returns: the event source mapping deletes the message.
HandlerReturn(n) ==
    /\ inv[n].status = "running"
    /\ inv[n].idx > Len(msg[n].body)
    /\ inv' = [inv EXCEPT ![n].status = "succeeded"]
    /\ msg' = [msg EXCEPT ![n].loc = "deleted"]
    /\ UNCHANGED <<env, api, log, deliveries, execs, alarm, now>>

\* The message of a failed invocation was not deleted: it becomes visible
\* again when its visibility timeout ends.
VisibilityTimeout(n) ==
    /\ msg[n].loc = "inflight"
    /\ inv[n].status = "failed"
    /\ msg' = [msg EXCEPT ![n].loc = "queue"]
    /\ UNCHANGED <<env, api, inv, log, deliveries, execs, alarm, now>>

\* ApproximateNumberOfMessagesVisible of the dead-letter queue.
DlqVisible == Cardinality({n \in Notifs : msg[n].loc = "dlq"})

\* upload-dlq-alarm is evaluated: on a change to ALARM its action publishes
\* to the monitoring topic.
EvaluateDlqAlarm ==
    LET state == IF DlqVisible >= dlq_alarm_threshold THEN "ALARM" ELSE "OK"
    IN  /\ state # alarm.state
        /\ alarm' = [state |-> state,
                     notified |-> IF state = "ALARM" THEN alarm.notified + 1
                                  ELSE alarm.notified]
        /\ UNCHANGED <<env, api, msg, inv, log, deliveries, execs, now>>

(* ----------------------------- executions ------------------------------ *)

Execs == 1..Len(execs)

Queue == <<msg, inv, log, deliveries, alarm>>

\* DetectToxicity returns a score.
DetectToxicity(e, score) ==
    /\ At(execs[e], TextStateMachineArn, "DetectToxicity")
    /\ execs' = [execs EXCEPT
                   ![e].data = WithField(@, "toxicityResult",
                                         [ResultList |-> <<[Toxicity |-> score]>>]),
                   ![e].state = "EvaluateToxicity",
                   ![e].invoked = Invoke(execs[e], "DetectToxicity").invoked]
    /\ UNCHANGED <<env, api, Queue, now>>

\* Variant of DetectToxicityFailed: the task has a Retry, the evaluator is
\* called a second time before the execution fails.
DetectToxicityFailed_retried(e) ==
    /\ At(execs[e], TextStateMachineArn, "DetectToxicity")
    /\ execs' = [execs EXCEPT ![e] =
                   IF @.invoked["DetectToxicity"] = 0
                   THEN Invoke(@, "DetectToxicity")
                   ELSE Ended(Invoke(@, "DetectToxicity"), "FAILED",
                              "States.TaskFailed", <<>>)]
    /\ UNCHANGED <<env, api, Queue, now>>

\* DetectToxicity errors: the task has no Retry and no Catch, so the
\* execution fails.
DetectToxicityFailed(e) ==
    /\ At(execs[e], TextStateMachineArn, "DetectToxicity")
    /\ execs' = [execs EXCEPT ![e] = Ended(Invoke(@, "DetectToxicity"), "FAILED",
                                           "States.TaskFailed", <<>>)]
    /\ UNCHANGED <<env, api, Queue, now>>

EvaluateToxicity(e) ==
    /\ At(execs[e], TextStateMachineArn, "EvaluateToxicity")
    /\ execs' = [execs EXCEPT ![e].state = evaluate_toxicity(execs[e].data)]
    /\ UNCHANGED <<env, api, Queue, now>>

HandleHighlyToxicContent(e) ==
    /\ At(execs[e], TextStateMachineArn, "HandleHighlyToxicContent")
    /\ execs' = [execs EXCEPT
                   ![e].data = handle_highly_toxic_content(@, execs[e].startTime),
                   ![e].state = handle_highly_toxic_content_next]
    /\ UNCHANGED <<env, api, Queue, now>>

\* A branch of ParallelRekognitionTasks returns: branch 1 is
\* DetectModerationLabels, branch 2 is DetectText.
DetectModerationLabels(e, labels) ==
    /\ At(execs[e], ImageStateMachineArn, "ParallelRekognitionTasks")
    /\ execs[e].branches[1].status = "RUNNING"
    /\ execs' = [execs EXCEPT ![e].branches[1] =
                   [status |-> "SUCCEEDED",
                    data |-> WithField(@.data, "moderationLabelsResult",
                                       [ModerationLabels |-> labels])],
                   ![e].invoked = Invoke(execs[e], BranchTask[1]).invoked]
    /\ UNCHANGED <<env, api, Queue, now>>

DetectText(e, texts) ==
    /\ At(execs[e], ImageStateMachineArn, "ParallelRekognitionTasks")
    /\ execs[e].branches[2].status = "RUNNING"
    /\ execs' = [execs EXCEPT ![e].branches[2] =
                   [status |-> "SUCCEEDED",
                    data |-> WithField(@.data, "textDetectionResult",
                                       [TextDetections |-> texts])],
                   ![e].invoked = Invoke(execs[e], BranchTask[2]).invoked]
    /\ UNCHANGED <<env, api, Queue, now>>

\* Variant of RekognitionFailed: the branch's error is recorded and the
\* execution goes on.
RekognitionFailed_swallowed(e, b) ==
    /\ At(execs[e], ImageStateMachineArn, "ParallelRekognitionTasks")
    /\ execs[e].branches[b].status = "RUNNING"
    /\ execs' = [execs EXCEPT ![e].branches[b].status = "FAILED",
                               ![e].invoked = Invoke(execs[e], BranchTask[b]).invoked]
    /\ UNCHANGED <<env, api, Queue, now>>

\* A branch's task errors: the Parallel state fails, and with no Catch on it
\* the execution fails; the other branch is stopped.
RekognitionFailed(e, b) ==
    /\ At(execs[e], ImageStateMachineArn, "ParallelRekognitionTasks")
    /\ execs[e].branches[b].status = "RUNNING"
    /\ execs' = [execs EXCEPT ![e] =
                   Ended(Invoke(@, BranchTask[b]), "FAILED", "States.TaskFailed",
                         [c \in 1..2 |->
                            [status |-> IF c = b THEN "FAILED"
                                        ELSE IF @.branches[c].status = "RUNNING"
                                             THEN "ABORTED" ELSE @.branches[c].status,
                             data |-> NoData]])]
    /\ UNCHANGED <<env, api, Queue, now>>

\* Both branches are done: their outputs, in branch order, go to
\* $.parallelResults and the Parallel state moves on.
ParallelJoin(e) ==
    /\ At(execs[e], ImageStateMachineArn, "ParallelRekognitionTasks")
    /\ \A b \in 1..2 : execs[e].branches[b].status = "SUCCEEDED"
    /\ execs' = [execs EXCEPT
                   ![e].data = WithField(@, "parallelResults",
                                         <<execs[e].branches[1].data,
                                           execs[e].branches[2].data>>),
                   ![e].state = "EvaluateModeration"]
    /\ UNCHANGED <<env, api, Queue, now>>

EvaluateModeration(e) ==
    /\ At(execs[e], ImageStateMachineArn, "EvaluateModeration")
    /\ execs' = [execs EXCEPT ![e].state = evaluate_moderation(execs[e].data)]
    /\ UNCHANGED <<env, api, Queue, now>>

HandleInappropriateContent(e) ==
    /\ At(execs[e], ImageStateMachineArn, "HandleInappropriateContent")
    /\ execs' = [execs EXCEPT
                   ![e].data = handle_inappropriate_content(@, execs[e].startTime),
                   ![e].state = handle_inappropriate_content_next]
    /\ UNCHANGED <<env, api, Queue, now>>

\* A Succeed state ends the execution.
Succeed(e) ==
    /\ Running(execs[e])
    /\ execs[e].state \in SucceedStates
    /\ execs' = [execs EXCEPT ![e].status = "SUCCEEDED"]
    /\ UNCHANGED <<env, api, Queue, now>>

\* timeout=Duration.minutes(5) of either state machine: an execution that is
\* still running is ended.
ExecutionTimeout(e) ==
    /\ Running(execs[e])
    /\ execs' = [execs EXCEPT ![e] = Ended(@, "TIMED_OUT", "States.Timeout", <<>>)]
    /\ UNCHANGED <<env, api, Queue, now>>

\* Any step of execution e.
ExecutionStep(e) ==
    \/ \E score \in Scores : DetectToxicity(e, score)
    \/ DetectToxicityFailed(e)
    \/ EvaluateToxicity(e)
    \/ HandleHighlyToxicContent(e)
    \/ \E f \in Findings : DetectModerationLabels(e, f)
    \/ \E f \in Findings : DetectText(e, f)
    \/ \E b \in 1..2 : RekognitionFailed(e, b)
    \/ ParallelJoin(e)
    \/ EvaluateModeration(e)
    \/ HandleInappropriateContent(e)
    \/ Succeed(e)
    \/ ExecutionTimeout(e)

\* The engine accepts a start_execution call made outside a Dispatcher
\* invocation of this run (the call is one the Dispatcher makes).
StartExecution(call) ==
    /\ Len(execs) < MaxExecs
    /\ execs' = Append(execs, NewExecution(call, <<0, 0>>, now))
    /\ UNCHANGED <<env, api, Queue, now>>

\* The start_execution calls process_queue_record makes.
DispatcherCalls ==
    {start_text_moderation_workflow(p, "en", TextStateMachineArn) : p \in Payloads}
        \cup {start_image_moderation_workflow(unquote_plus(K_png), ImageStateMachineArn)}

\* The endpoint answers a request.
GeneratePresignedUrl(event, uuid4, signed) ==
    /\ Len(api) < MaxRequests
    /\ api' = Append(api, [event |-> event,
                           outcome |-> generate_presigned_url_lambda_handler(
                                          event, uuid4, signed)])
    /\ UNCHANGED <<env, Queue, execs, now>>

(* ---------------------------- specifications --------------------------- *)

\* The queue, its dead-letter queue and alarm, and the Dispatcher.
NextQueue ==
    \/ \E n \in Notifs, body \in Bodies : S3Notify(n, body)
    \/ \E n \in Notifs : Receive(n)
    \/ \E n \in Notifs : MoveToDeadLetterQueue(n)
    \/ \E n \in Notifs, got \in GetObjectResults, started \in StartExecutionResults :
          HandleRecord(n, got, started)
    \/ \E n \in Notifs : HandlerReturn(n)
    \/ \E n \in Notifs : VisibilityTimeout(n)
    \/ EvaluateDlqAlarm

\* The two workflow engines running the executions they accepted.
NextExecutions ==
    \/ \E e \in Execs, score \in Scores : DetectToxicity(e, score)
    \/ \E e \in Execs : DetectToxicityFailed(e)
    \/ \E e \in Execs : EvaluateToxicity(e)
    \/ \E e \in Execs : HandleHighlyToxicContent(e)
    \/ \E e \in Execs, f \in Findings : DetectModerationLabels(e, f)
    \/ \E e \in Execs, f \in Findings : DetectText(e, f)
    \/ \E e \in Execs, b \in 1..2 : RekognitionFailed(e, b)
    \/ \E e \in Execs : ParallelJoin(e)
    \/ \E e \in Execs : EvaluateModeration(e)
    \/ \E e \in Execs : HandleInappropriateContent(e)
    \/ \E e \in Execs : Succeed(e)
    \/ \E e \in Execs : ExecutionTimeout(e)

\* The whole platform.
Next == NextQueue \/ NextExecutions

Spec == Init /\ [][Next]_vars

\* The queue and the Dispatcher alone: executions are accepted and not followed.
QueueSpec == Init /\ [][NextQueue]_vars

\* The workflow engines alone.
NextWorkflow ==
    \/ \E call \in DispatcherCalls : StartExecution(call)
    \/ NextExecutions

WorkflowSpec == Init /\ [][NextWorkflow]_vars

\* Fair delivery: the event source mapping keeps polling, an invocation runs
\* to its end, and the alarm is evaluated every period.
QueueFairness ==
    /\ \A n \in Notifs :
          /\ WF_vars(Receive(n))
          /\ WF_vars(MoveToDeadLetterQueue(n))
          /\ WF_vars(\E got \in GetObjectResults, started \in StartExecutionResults :
                        HandleRecord(n, got, started))
          /\ WF_vars(HandlerReturn(n))
          /\ WF_vars(VisibilityTimeout(n))
    /\ WF_vars(EvaluateDlqAlarm)

\* An execution makes progress: at the latest, its timeout ends it.
WorkflowFairness ==
    \A e \in 1..MaxExecs : WF_vars(e \in Execs /\ ExecutionStep(e))

FairQueueSpec == QueueSpec /\ QueueFairness

FairWorkflowSpec == WorkflowSpec /\ WorkflowFairness

(* -------------------------------- claims ------------------------------- *)

IsText(e) == e.arn = TextStateMachineArn
IsImage(e) == e.arn = ImageStateMachineArn

\* What the two evaluators of a succeeded image execution returned.
LabelsOf(e) == e.data.parallelResults[1].moderationLabelsResult.ModerationLabels
TextsOf(e) == e.data.parallelResults[2].textDetectionResult.TextDetections

\* The score the evaluator of a text execution returned.
ScoreOf(e) == e.data.toxicityResult.ResultList[1].Toxicity

\* C1: an image execution whose two evaluators both succeeded and that ran to
\* its end is Rejected if and only if moderation labels or embedded text were
\* found, and Approved if and only if neither was; so an image with no labels
\* and with embedded text is Rejected.
C1_ImageDecision ==
    \A e \in Execs :
        IsImage(execs[e]) /\ Succeeded(execs[e]) =>
            /\ Rejected(execs[e]) <=> (LabelsOf(execs[e]) # <<>> \/ TextsOf(execs[e]) # <<>>)
            /\ Approved(execs[e]) <=> (LabelsOf(execs[e]) = <<>> /\ TextsOf(execs[e]) = <<>>)

\* The states of the text workflow: there is no human-review state.
TextStates ==
    {"DetectToxicity", "EvaluateToxicity", "HandleHighlyToxicContent",
     "ModerationComplete", "ContentApproved", "States.TaskFailed", "States.Timeout"}

C4_BoundedRedelivery ==
    /\ [](\A n \in Notifs : deliveries[n] <= 2)
    /\ [][\A n \in Notifs :
            msg[n].loc = "dlq" =>
                /\ msg'[n].loc = "dlq"
                /\ deliveries'[n] = deliveries[n]
                /\ inv'[n] = inv[n]]_vars

\* Reached: a dead-lettered notification that was delivered.
C4_Witness ==
    \E n \in Notifs : msg[n].loc = "dlq" /\ deliveries[n] >= 1

\* C5: every published notification is in the end either processed
\* successfully or in the dead-letter queue (one that fails on every delivery
\* ends in the dead-letter queue); a notification that failed is never
\* deleted; and when the dead-letter queue holds a message the alarm is in
\* the end raised to the monitoring topic.
C5_FailurePathLiveness ==
    /\ \A n \in Notifs :
          (msg[n].loc = "queue") ~> (msg[n].loc = "dlq" \/ inv[n].status = "succeeded")
    /\ \A n \in Notifs :
          (inv[n].status = "failed") ~> (msg[n].loc = "dlq")
    /\ [](\A n \in Notifs :
             inv[n].status = "failed" => msg[n].loc \in {"inflight", "queue", "dlq"})
    /\ (DlqVisible >= 1) ~> (alarm.state = "ALARM" /\ alarm.notified >= 1)

\* Reached: a notification without object key in the dead-letter queue and
\* the alarm raised.
C5_Witness ==
    \E n \in Notifs :
        /\ msg[n].body = <<E_nokey>>
        /\ msg[n].loc = "dlq"
        /\ alarm.state = "ALARM" /\ alarm.notified >= 1

\* C6 as stated: every started execution in the end reaches a terminal state,
\* and a terminal execution is Approved or Rejected.
C6_EveryExecutionDecides ==
    /\ \A i \in 1..MaxExecs :
          (i \in Execs) ~> (i \in Execs /\ Terminal(execs[i]))
    /\ [](\A e \in Execs :
             Terminal(execs[e]) => Approved(execs[e]) \/ Rejected(execs[e]))

\* C6 as amended: every started execution in the end reaches a terminal
\* state, and a terminal execution is Approved, Rejected or Failed (an
\* evaluator call errored, or the execution timed out).
C6_EveryExecutionEnds ==
    /\ \A i \in 1..MaxExecs :
          (i \in Execs) ~>
              (i \in Execs /\ (Approved(execs[i]) \/ Rejected(execs[i]) \/ Failed(execs[i])))
    /\ [](\A e \in Execs :
             Terminal(execs[e]) =>
                 Approved(execs[e]) \/ Rejected(execs[e]) \/ Failed(execs[e]))

\* Reached: a text execution that ended Failed on an evaluator error and an
\* image execution that ended Rejected.
C6_Witness ==
    \E e1, e2 \in Execs :
        /\ IsText(execs[e1]) /\ execs[e1].status = "FAILED"
        /\ IsImage(execs[e2]) /\ Rejected(execs[e2])

\* C7: no execution is both Approved and Rejected (an Approved execution is
\* not in a rejecting end state and carries no REJECTED decision), and a
\* terminal execution (Approved, Rejected or Failed) never changes again:
\* neither its state nor its moderation decision.
C7_ExclusiveAndFinal ==
    /\ [](\A e \in Execs :
             /\ ~(Approved(execs[e]) /\ Rejected(execs[e]))
             /\ Approved(execs[e]) => ~HasDecision(execs[e])
             /\ Rejected(execs[e]) =>
                   /\ HasDecision(execs[e])
                   /\ execs[e].data.moderationDecision.decision = "REJECTED")
    /\ [][\A e \in Execs :
            Terminal(execs[e]) => execs'[e] = execs[e]]_vars

\* Reached: a Rejected execution with its decision next to another terminal
\* execution (one of the two ended while the other was already terminal).
C7_Witness ==
    \E e1, e2 \in Execs :
        /\ Rejected(execs[e1]) /\ HasDecision(execs[e1])
        /\ e2 # e1 /\ (Approved(execs[e2]) \/ Failed(execs[e2]))

\* The executions started for record i of notification n.
StartedFor(n, i) == {e \in Execs : execs[e].src = <<n, i>>}

\* The S3 records of notification n the Dispatcher has handled so far.
Handled(n) == 1..Len(log[n])

\* The state machine that belongs to an object-creation event of the run, by
\* the suffix of its key: ".txt" is text, ".png" is image, ".pdf" is neither.
KindArn(r) ==
    IF r.key = K_txt THEN TextStateMachineArn
    ELSE IF r.key = K_png THEN ImageStateMachineArn
    ELSE "none"

\* The object-creation events with a key.
CreatedWithKey(r) ==
    r.eventName \in {"ObjectCreated:Put", "ObjectCreated:Post", "ObjectCreated:Copy"}
        /\ r.key # <<>>

\* C8 as stated: processing an object-creation event with a key starts exactly
\* one execution when the key is text or image, of the state machine of that
\* kind and never of the other, and none when the kind is unsupported.
C8_ExactlyOneExecution ==
    \A n \in Notifs : \A i \in Handled(n) :
        LET r == msg[n].body[i]
        IN  CreatedWithKey(r) =>
                IF KindArn(r) = "none"
                THEN StartedFor(n, i) = {}
                ELSE /\ Cardinality(StartedFor(n, i)) = 1
                     /\ \A e \in StartedFor(n, i) : execs[e].arn = KindArn(r)

\* C8 as amended: processing an object-creation event with a key makes at
\* most one start call and starts at most one execution, always of the state
\* machine of the key's kind (whatever the bucket, the payload or the
\* creation event name) and never of the other; it starts exactly one when
\* processing raised no error (the payload fetch of a text object and the
\* start call succeeded) and none otherwise; none is started for an
\* unsupported kind.
C8_AtMostOneExecutionOfTheKind ==
    \A n \in Notifs : \A i \in Handled(n) :
        LET r == msg[n].body[i]
            o == log[n][i]
        IN  CreatedWithKey(r) =>
                /\ Len(o.start_execution) <= 1
                /\ \A c \in 1..Len(o.start_execution) :
                      o.start_execution[c].stateMachineArn = KindArn(r)
                /\ \A e \in StartedFor(n, i) : execs[e].arn = KindArn(r)
                /\ Cardinality(StartedFor(n, i)) =
                      IF KindArn(r) # "none" /\ o.error = "none" THEN 1 ELSE 0

\* Reached: a text event started a text execution, and an image event with
\* another creation event name and another bucket started an image execution.
C8_Witness ==
    \E n1, n2 \in Notifs :
        /\ msg[n1].body = <<E_text>>
        /\ \E e \in StartedFor(n1, 1) : IsText(execs[e])
        /\ msg[n2].body = <<E_removed, E_image_copy>>
        /\ \E e \in StartedFor(n2, 2) : IsImage(execs[e])

\* C9: an event named "ObjectRemoved:Delete" is skipped: handling it fetches
\* no payload, starts no workflow and raises no error; a notification with
\* only such events does not fail, is delivered once and is never in the
\* dead-letter queue.
C9_RemovalSkipped ==
    \A n \in Notifs :
        /\ \A i \in Handled(n) :
              msg[n].body[i].eventName = "ObjectRemoved:Delete" =>
                  /\ log[n][i].error = "none"
                  /\ log[n][i].get_object = <<>>
                  /\ log[n][i].start_execution = <<>>
                  /\ StartedFor(n, i) = {}
        /\ (/\ msg[n].body # <<>>
            /\ \A i \in 1..Len(msg[n].body) :
                  msg[n].body[i].eventName = "ObjectRemoved:Delete") =>
              /\ inv[n].status # "failed"
              /\ msg[n].loc # "dlq"
              /\ deliveries[n] <= 1

\* Reached: a notification with one removal event was delivered, its
\* invocation succeeded and the message was deleted.
C9_Witness ==
    \E n \in Notifs :
        /\ msg[n].body = <<E_removed>>
        /\ Len(log[n]) = 1
        /\ inv[n].status = "succeeded"
        /\ msg[n].loc = "deleted"

\* C10: handling an object-creation event without (or with an empty) object
\* key raises the missing-key error before anything else is done for it: no
\* file type is determined, no payload is fetched, no workflow is started;
\* the invocation fails with that error, no later event is handled, and the
\* message is not deleted.
C10_MissingKeyFails ==
    \A n \in Notifs : \A i \in Handled(n) :
        msg[n].body[i] = E_nokey =>
            /\ log[n][i] = Outcome("MissingObjectKey", "none", <<>>, <<>>)
            /\ StartedFor(n, i) = {}
            /\ Len(log[n]) = i
            /\ inv[n].status = "failed" /\ inv[n].error = "MissingObjectKey"
            /\ msg[n].loc # "deleted"

\* Reached: the second event of a notification has no key; the invocation
\* failed on it after it had handled the first.
C10_Witness ==
    \E n \in Notifs :
        /\ msg[n].body = <<E_text, E_nokey>>
        /\ Len(log[n]) = 2
        /\ inv[n].error = "MissingObjectKey"

\* C11: handling an object-creation event whose key is of neither kind
\* ("d.pdf") raises the unsupported-file-type error: the type was determined
\* as unknown, no payload is fetched, no workflow of either type is started,
\* and the invocation fails with that error.
C11_UnsupportedFails ==
    \A n \in Notifs : \A i \in Handled(n) :
        msg[n].body[i] = E_pdf =>
            /\ log[n][i] = Outcome("UnsupportedFileType", "unknown", <<>>, <<>>)
            /\ StartedFor(n, i) = {}
            /\ inv[n].status = "failed" /\ inv[n].error = "UnsupportedFileType"
            /\ msg[n].loc # "deleted"

\* Reached: the invocation for "d.pdf" failed while its message is in flight.
C11_Witness ==
    \E n \in Notifs :
        /\ msg[n].body = <<E_pdf>>
        /\ Len(log[n]) = 1
        /\ inv[n].status = "failed"
        /\ msg[n].loc = "inflight"

(* ------------------------- classifier, on its own ---------------------- *)

\* Object keys for the classifier: a beginning (nothing, a name, a directory,
\* a name with an extension, a directory named like a text file, a dot, a
\* directory with a name) followed by an ending (each configured extension,
\* some in upper or mixed case, and endings that are no extension).
KeyPrefixes ==
    { <<>>, <<"a">>, <<"d", "/">>, <<"a", ".", "p", "n", "g">>,
      <<"a", ".", "t", "x", "t", "/">>, <<".">>, <<"d", "/", "a">> }

KeySuffixes ==
    TEXT_EXTENSIONS \cup IMAGE_EXTENSIONS
        \cup { <<".", "T", "X", "T">>, <<".", "P", "n", "G">>, <<".", "M", "D">>,
               <<>>, <<"b">>, <<".", "p", "d", "f">>, <<"t", "x", "t">>,
               <<".", "t", "x", "t", ".">> }

Keys == {p \o s : p \in KeyPrefixes, s \in KeySuffixes} \ { <<>> }

\* One notification per key, each with one object-creation event.
KeyBodies == { <<S3Record("aws:s3", "ObjectCreated:Put", UploadBucket, k)>> : k \in Keys }

\* The Dispatcher handling one notification whose key is any of Keys.
NextClassifier ==
    \/ \E body \in KeyBodies : S3Notify(1, body)
    \/ Receive(1)
    \/ \E got \in GetObjectResults, started \in StartExecutionResults :
          HandleRecord(1, got, started)

ClassifierSpec == Init /\ [][NextClassifier]_vars

\* k ends with suf.
EndsWith(k, suf) ==
    Len(k) >= Len(suf) /\ SubSeq(k, Len(k) - Len(suf) + 1, Len(k)) = suf

\* The kind of a key by the configured suffix it ends with, whatever its case.
SuffixKind(k) ==
    IF \E suf \in TEXT_EXTENSIONS : EndsWith(lower(k), suf) THEN "text"
    ELSE IF \E suf \in IMAGE_EXTENSIONS : EndsWith(lower(k), suf) THEN "image"
    ELSE "unknown"

\* C12: for every object key determine_file_type returns text when the key
\* ends, in any case, with a text suffix, image when it ends with an image
\* suffix, and unknown otherwise; also for keys that are only a suffix
\* (".txt"), keys with a directory part ("d/.png", "a.txt/b") and keys with
\* several dots ("a.png.txt").
C12_ClassifiedBySuffix ==
    \A n \in Notifs : \A i \in Handled(n) :
        log[n][i].fileType \notin {"none", "skipped"} =>
            log[n][i].fileType = SuffixKind(msg[n].body[i].key)

\* The states of the image workflow from the decision state on.
FromDecision ==
    {"EvaluateModeration", "HandleInappropriateContent", "ImageApproved",
     "ImageModerationComplete"}

\* The state data of e with the embedded-text detector's result replaced.
WithTexts(e, texts) ==
    [e.data EXCEPT !.parallelResults[2].textDetectionResult.TextDetections = texts]

\* The join alone: an image execution is in the decision state or past it
\* only with both branches completed successfully and with both branches'
\* results, in branch order, in its state data.
C13_JoinBeforeDecision ==
    \A e \in Execs :
        IsImage(execs[e]) /\ execs[e].state \in FromDecision =>
            /\ \A b \in 1..2 : execs[e].branches[b].status = "SUCCEEDED"
            /\ execs[e].data.parallelResults =
                  <<execs[e].branches[1].data, execs[e].branches[2].data>>

\* C13: the decision state of the image workflow is entered only after both
\* evaluator branches completed successfully, never while one is running,
\* and the decision reads the results of both branches: with no moderation
\* labels found, what the decision state chooses depends on whether the
\* embedded-text detector found text.
C13_DecisionReadsBothBranches ==
    /\ C13_JoinBeforeDecision
    /\ \A e \in Execs :
          At(execs[e], ImageStateMachineArn, "EvaluateModeration")
              /\ LabelsOf(execs[e]) = <<>> =>
                  evaluate_moderation(WithTexts(execs[e], <<>>))
                      # evaluate_moderation(WithTexts(execs[e], <<"finding">>))

\* The branches of e in which the evaluator call failed.
FailedBranches(e) == {b \in DOMAIN e.branches : e.branches[b].status = "FAILED"}

\* C14: an image execution in which an evaluator call failed is Failed, is
\* neither Approved nor Rejected, carries no results, and stays so: whatever
\* the other evaluator returned, and whether it had finished or was still
\* running (it is then stopped).
C14_FailFastJoin ==
    /\ [](\A e \in Execs :
             FailedBranches(execs[e]) # {} =>
                 /\ execs[e].status = "FAILED"
                 /\ ~Approved(execs[e]) /\ ~Rejected(execs[e])
                 /\ execs[e].data = NoData
                 /\ \A b \in 1..2 : execs[e].branches[b].status # "RUNNING")
    /\ [][\A e \in Execs :
            FailedBranches(execs[e]) # {} => execs'[e] = execs[e]]_vars

\* Reached: one execution failed after its other evaluator had returned, and
\* one failed while its other evaluator was still running.
C14_Witness ==
    \E e1, e2 \in Execs :
        /\ execs[e1].status = "FAILED" /\ IsImage(execs[e1])
        /\ execs[e1].branches[1].status = "SUCCEEDED"
        /\ execs[e1].branches[2].status = "FAILED"
        /\ execs[e2].status = "FAILED" /\ IsImage(execs[e2])
        /\ execs[e2].branches[1].status = "FAILED"
        /\ execs[e2].branches[2].status = "ABORTED"

\* The states after the Pass states that write the decision.
AfterDecisionWritten == {"ModerationComplete", "ImageModerationComplete"}

\* C15: an execution that ended Failed (an evaluator call errored, or the
\* execution timed out) carries no moderation decision; an execution has a
\* moderationDecision only past the Pass state behind the decision rule, with
\* the results of its successful evaluator calls in its state data.
C15_NoDecisionOnFailure ==
    \A e \in Execs :
        /\ Failed(execs[e]) => ~HasDecision(execs[e])
        /\ HasDecision(execs[e]) =>
              /\ execs[e].state \in AfterDecisionWritten
              /\ IsText(execs[e]) => "toxicityResult" \in DOMAIN execs[e].data
              /\ IsImage(execs[e]) =>
                    /\ "parallelResults" \in DOMAIN execs[e].data
                    /\ \A b \in 1..2 : execs[e].branches[b].status = "SUCCEEDED"

\* Reached: one execution timed out, one failed on an evaluator error.
C15_Witness ==
    \E e1, e2 \in Execs :
        /\ execs[e1].status = "TIMED_OUT" /\ ~HasDecision(execs[e1])
        /\ execs[e2].status = "FAILED" /\ ~HasDecision(execs[e2])

\* C16: the output of a terminated execution has a moderationDecision if and
\* only if the execution is Rejected; its decision is then "REJECTED" and its
\* reason is that of the workflow. An Approved execution's output has none.
C16_TerminalOutputShape ==
    \A e \in Execs :
        Terminal(execs[e]) =>
            /\ HasDecision(execs[e]) <=> Rejected(execs[e])
            /\ Approved(execs[e]) => "moderationDecision" \notin DOMAIN execs[e].data
            /\ Rejected(execs[e]) =>
                  /\ execs[e].data.moderationDecision.decision = "REJECTED"
                  /\ execs[e].data.moderationDecision.reason =
                        IF IsText(execs[e])
                        THEN "Content contains highly toxic language"
                        ELSE "Image contains inappropriate content"

\* Reached: a Rejected text execution and a Rejected image execution.
C16_Witness ==
    \E e1, e2 \in Execs :
        /\ IsText(execs[e1]) /\ Rejected(execs[e1])
        /\ IsImage(execs[e2]) /\ Rejected(execs[e2])

(* --------------------- the text workflow on the clock ------------------ *)

\* Time passes.
Tick ==
    /\ now < MaxTime
    /\ now' = now + 1
    /\ UNCHANGED <<env, api, Queue, execs>>

\* The start_execution call of the Dispatcher for one text object.
TextCall == start_text_moderation_workflow("you are worthless", "en", TextStateMachineArn)

\* Text executions, started and run while time passes.
NextTimedText ==
    \/ StartExecution(TextCall)
    \/ \E e \in Execs, score \in Scores : DetectToxicity(e, score)
    \/ \E e \in Execs : DetectToxicityFailed(e)
    \/ \E e \in Execs : EvaluateToxicity(e)
    \/ \E e \in Execs : HandleHighlyToxicContent(e)
    \/ \E e \in Execs : Succeed(e)
    \/ \E e \in Execs : ExecutionTimeout(e)
    \/ Tick

TimedTextSpec == Init /\ [][NextTimedText]_vars

\* C17 as stated: a text execution that ended Approved or Rejected carries a
\* moderation decision whose timestamp is the time the execution started.
C17_EveryTerminalStateHasDecision ==
    \A e \in Execs :
        IsText(execs[e]) /\ (Approved(execs[e]) \/ Rejected(execs[e])) =>
            /\ HasDecision(execs[e])
            /\ execs[e].data.moderationDecision.timestamp = execs[e].startTime

\* C17 as amended: a text execution that ended Rejected carries a moderation
\* decision, one that ended Approved carries none, and the timestamp of a
\* decision is the time the execution started, whatever the time at which
\* the evaluator returned or the decision was written.
C17_RejectedHasDecisionStampedAtStart ==
    \A e \in Execs :
        IsText(execs[e]) =>
            /\ Rejected(execs[e]) => HasDecision(execs[e])
            /\ Approved(execs[e]) => ~HasDecision(execs[e])
            /\ HasDecision(execs[e]) =>
                  execs[e].data.moderationDecision.timestamp = execs[e].startTime

\* Reached: two Rejected text executions started at different times, each
\* stamped with its own start time, seen at a later time.
C17_Witness ==
    \E e1, e2 \in Execs :
        /\ Rejected(execs[e1]) /\ Rejected(execs[e2])
        /\ execs[e1].startTime < execs[e2].startTime
        /\ execs[e1].data.moderationDecision.timestamp = execs[e1].startTime
        /\ execs[e2].data.moderationDecision.timestamp = execs[e2].startTime
        /\ execs[e2].startTime < now

\* The start call made for record i of notification n failed: a call was
\* made and no execution exists for it.
StartFailed(n, i) ==
    log[n][i].start_execution # <<>> /\ StartedFor(n, i) = {}

\* Notification n failed on its last handled record, is not acknowledged
\* (its message is in flight, back on the queue or dead-lettered, never
\* deleted) and was delivered once.
FailedOnce(n, error) ==
    /\ inv[n].status = "failed" /\ inv[n].error = error
    /\ msg[n].loc \in {"inflight", "queue", "dlq"}
    /\ deliveries[n] = 1

Age(n) == now - msg[n].receivedAt

\* The clock of this part moves in steps of the Lambda's timeout.
ClockStep == lambda_timeout

\* Time passes; it cannot pass while an invocation is at its timeout.
TickSeconds ==
    /\ now + ClockStep <= MaxSeconds
    /\ \A n \in Notifs : inv[n].status = "running" => Age(n) < lambda_timeout
    /\ now' = now + ClockStep
    /\ UNCHANGED <<env, api, Queue, execs>>

\* The Lambda service ends an invocation that reached its timeout.
LambdaTimeout(n) ==
    /\ inv[n].status = "running"
    /\ Age(n) >= lambda_timeout
    /\ inv' = [inv EXCEPT ![n].status = "failed", ![n].error = "Task timed out"]
    /\ UNCHANGED <<env, api, msg, log, deliveries, execs, alarm, now>>

\* The visibility timeout of a received message that was not deleted ends:
\* the message is visible again, whatever its invocation is doing.
VisibilityExpires(n) ==
    /\ msg[n].loc = "inflight"
    /\ Age(n) >= visibility_timeout
    /\ msg' = [msg EXCEPT ![n].loc = "queue"]
    /\ UNCHANGED <<env, api, inv, log, deliveries, execs, alarm, now>>

\* The bodies of the notifications of this part: an image, an unsupported object.
TimedBodies == { <<E_image>>, <<E_pdf>> }

\* The queue and the Dispatcher instances with the timers of the queue and of
\* the Lambda.
NextTimedQueue ==
    \/ \E n \in Notifs, body \in TimedBodies : S3Notify(n, body)
    \/ \E n \in Notifs : Receive(n)
    \/ \E n \in Notifs : MoveToDeadLetterQueue(n)
    \/ \E n \in Notifs, got \in GetObjectResults, started \in StartExecutionResults :
          HandleRecord(n, got, started)
    \/ \E n \in Notifs : HandlerReturn(n)
    \/ \E n \in Notifs : LambdaTimeout(n)
    \/ \E n \in Notifs : VisibilityExpires(n)
    \/ TickSeconds

TimedQueueSpec == Init /\ [][NextTimedQueue]_vars

\* C19: a notification that a Dispatcher instance is processing is in flight
\* (invisible to every other instance); it is delivered only when no
\* processing attempt of it is in progress; and it becomes visible again
\* only after the attempt has ended, the visibility timeout being longer than
\* the Lambda's timeout.
C19_InFlightExclusive ==
    /\ [](\A n \in Notifs : inv[n].status = "running" => msg[n].loc = "inflight")
    /\ [][\A n \in Notifs :
            /\ deliveries'[n] # deliveries[n] => inv[n].status # "running"
            /\ (msg[n].loc = "inflight" /\ msg'[n].loc = "queue") =>
                  /\ inv[n].status = "failed"
                  /\ Age(n) >= visibility_timeout]_vars

\* Reached: a notification is visible again after its attempt was ended by
\* the Lambda's timeout, while another instance is processing another one.
C19_Witness ==
    \E n1, n2 \in Notifs :
        /\ msg[n1].loc = "queue" /\ msg[n1].receiveCount = 1
        /\ inv[n1].error = "Task timed out"
        /\ inv[n2].status = "running"

\* The executions started in deliveries of notification n.
StartedIn(n) == {e \in Execs : execs[e].src[1] = n}

DeliveryBodies ==
    { <<E_text, E_image>>, <<E_image, E_pdf>>, <<E_text, E_nokey>>,
      <<E_removed, E_image_copy>>, <<E_removed, E_text, E_removed, E_image>> }

\* The queue and the Dispatcher with one notification, and the workflow
\* engines running the executions the Dispatcher started.
NextDelivery ==
    \/ \E body \in DeliveryBodies : S3Notify(1, body)
    \/ Receive(1)
    \/ MoveToDeadLetterQueue(1)
    \/ \E got \in GetObjectResults, started \in StartExecutionResults :
          HandleRecord(1, got, started)
    \/ HandlerReturn(1)
    \/ VisibilityTimeout(1)
    \/ EvaluateDlqAlarm
    \/ NextExecutions

DeliverySpec == Init /\ [][NextDelivery]_vars

\* The errors lambda_handler and process_queue_record end an invocation with.
DispatcherErrors ==
    {"WorkflowArnNotSet", "MissingObjectKey", "UnsupportedFileType",
     "ParamValidationError", "ClientError", "UnicodeDecodeError",
     "StartExecutionError"}

\* C21: the processing of an event that reaches the start call succeeds
\* exactly when the engine accepts the call; an invocation fails only with an
\* error of the Dispatcher itself, the one its last record raised; and no step
\* of an execution (a failure, a timeout, a Rejected outcome) changes the
\* notification's place, its invocation or its delivery count: an
\* acknowledged notification stays acknowledged.
C21_FireAndForget ==
    /\ [](\A n \in Notifs :
            /\ \A i \in Handled(n) :
                  log[n][i].start_execution # <<>> =>
                     (log[n][i].error = "none" <=> StartedFor(n, i) # {})
            /\ inv[n].status = "failed" =>
                  /\ inv[n].error \in DispatcherErrors
                  /\ inv[n].idx > 0 =>
                        /\ log[n] # <<>>
                        /\ log[n][Len(log[n])].error = inv[n].error
            /\ msg[n].loc = "dlq" => inv[n].status = "failed")
    /\ [][ /\ (\E e \in Execs : e \in 1..Len(execs') /\ execs'[e] # execs[e]) =>
                UNCHANGED <<msg, inv, log, deliveries>>
           /\ \A n \in Notifs :
                 msg[n].loc = "deleted" =>
                    /\ msg'[n].loc = "deleted"
                    /\ deliveries'[n] = deliveries[n] ]_vars

\* Reached: the notification is acknowledged after one delivery while the
\* execution started for its first event has failed and the execution started
\* for its second event is still running.
C21_Witness ==
    /\ msg[1].loc = "deleted"
    /\ deliveries[1] = 1
    /\ \E e \in StartedFor(1, 1) : Failed(execs[e])
    /\ \E e \in StartedFor(1, 2) : Running(execs[e])


\* The start calls of the latest delivery of notification n the engine accepted.
Accepted(n) ==
    {i \in Handled(n) : log[n][i].start_execution # <<>> /\ log[n][i].error = "none"}

\* The tasks of a state machine.
TasksOf(e) ==
    IF IsText(e) THEN {"DetectToxicity"} ELSE {"DetectModerationLabels", "DetectText"}

\* C22: within one execution each evaluator is invoked at most once, and only
\* the evaluators of the execution's own workflow; an execution that ended in
\* a task failure or in the timeout is Failed, and an execution that has
\* ended is never changed again; the only executions are the ones the
\* Dispatcher's accepted start calls created, one each, so the engine starts
\* none in place of a failed one.
C22_NoSelfRetry ==
    /\ [](/\ \A e \in Execs :
               /\ \A task \in Tasks : execs[e].invoked[task] <= 1
               /\ \A task \in Tasks \ TasksOf(execs[e]) : execs[e].invoked[task] = 0
               /\ execs[e].state \in {"States.TaskFailed", "States.Timeout"} =>
                     Failed(execs[e])
          /\ \A n \in Notifs :
               Cardinality(StartedIn(n)) = Cardinality(Accepted(n))
          /\ \A e \in Execs : execs[e].src[1] \in Notifs)
    /\ [][ /\ \A e \in Execs :
                Terminal(execs[e]) => e \in 1..Len(execs') /\ execs'[e] = execs[e]
           /\ (\E e \in Execs : e \in 1..Len(execs') /\ execs'[e] # execs[e]) =>
                Len(execs') = Len(execs) ]_vars

\* Reached: a text execution failed at its one call of the toxicity
\* evaluator, and an image execution timed out after one call of the
\* moderation-label evaluator and none of the embedded-text evaluator; they
\* are the only executions.
C22_Witness ==
    /\ Len(execs) = 1 + 1
    /\ \E e \in Execs :
          /\ IsText(execs[e])
          /\ execs[e].status = "FAILED"
          /\ execs[e].invoked["DetectToxicity"] = 1
    /\ \E e \in Execs :
          /\ IsImage(execs[e])
          /\ execs[e].status = "TIMED_OUT"
          /\ execs[e].invoked["DetectModerationLabels"] = 1
          /\ execs[e].invoked["DetectText"] = 0


\* C23: a record classified as text has one payload fetch, for the decoded
\* key; the Text Workflow is started for it only if that fetch answered with
\* a payload, and then with inputText equal to that payload and languageCode
\* "en"; if the fetch or the decoding failed, no start call is made, no
\* execution exists for the record and the delivery has failed with that error.
C23_TextStartedAfterFetch ==
    \A n \in Notifs : \A i \in Handled(n) :
        LET o == log[n][i]
        IN  /\ o.fileType = "text" =>
                 /\ Len(o.get_object) = 1
                 /\ o.get_object[1].Key = unquote_plus(msg[n].body[i].key)
                 /\ o.get_object[1].Bucket = msg[n].body[i].bucket
            /\ (o.start_execution # <<>>
                  /\ o.start_execution[1].stateMachineArn = TextStateMachineArn) =>
                 /\ o.fileType = "text"
                 /\ o.get_object[1].answer.status = "ok"
                 /\ o.start_execution[1].input =
                       [inputText |-> o.get_object[1].answer.content,
                        languageCode |-> "en"]
            /\ \A e \in StartedFor(n, i) :
                 IsText(execs[e]) =>
                    /\ o.start_execution # <<>>
                    /\ execs[e].data = o.start_execution[1].input
            /\ (o.fileType = "text" /\ o.get_object[1].answer.status # "ok") =>
                 /\ o.start_execution = <<>>
                 /\ StartedFor(n, i) = {}
                 /\ o.error = o.get_object[1].answer.status
                 /\ inv[n].status = "failed"
                 /\ inv[n].error = o.error

\* Reached: one text event was fetched and started with the fetched payload,
\* another one failed at the decoding of its payload and started nothing.
C23_Witness ==
    \E n1, n2 \in Notifs :
        /\ Len(log[n1]) >= 1 /\ Len(log[n2]) >= 1
        /\ log[n1][1].fileType = "text"
        /\ log[n1][1].get_object[1].answer.content = "you are worthless"
        /\ \E e \in StartedFor(n1, 1) : execs[e].data.inputText = "you are worthless"
        /\ log[n2][1].fileType = "text"
        /\ log[n2][1].error = "UnicodeDecodeError"
        /\ msg[n2].loc = "dlq"


\* What the queue and the Dispatcher hold of notification n.
Delivery(n) == <<msg[n], inv[n], log[n], deliveries[n]>>

\* C24: an invocation holds one message: a step changes the message, the
\* invocation, the log and the delivery count of at most one notification, so
\* the step in which one notification's invocation fails leaves every other
\* notification as it was; a notification is dead-lettered only after its own
\* invocation failed; and an invocation that is at a record can always take
\* its next turn, and start the record's workflow when the engine accepts the
\* call, whatever happened to the other notifications.
C24_BatchOfOneIsolation ==
    /\ [](\A n \in Notifs :
            /\ msg[n].loc = "dlq" => inv[n].status = "failed"
            /\ inv[n].status = "failed" =>
                  \/ inv[n].error = "WorkflowArnNotSet"
                  \/ log[n] # <<>> /\ log[n][Len(log[n])].error = inv[n].error
            /\ (inv[n].status = "running" /\ inv[n].idx <= Len(msg[n].body)) =>
                  /\ ENABLED (\E got \in GetObjectResults :
                                 HandleRecord(n, got, "accepted"))
                  /\ msg[n].body[inv[n].idx] = E_image =>
                        ENABLED (/\ \E got \in GetObjectResults :
                                       HandleRecord(n, got, "accepted")
                                 /\ Len(execs') = Len(execs) + 1))
    /\ [][\A n, m \in Notifs :
             (n # m /\ Delivery(n)' # Delivery(n)) => Delivery(m)' = Delivery(m)]_vars

\* Reached: the first notification is poison and dead-lettered, the second
\* one was acknowledged after its one delivery with its workflow started.
C24_Witness ==
    /\ msg[1].loc = "dlq" /\ inv[1].error = "MissingObjectKey"
    /\ msg[2].loc = "deleted" /\ deliveries[2] = 1
    /\ StartedIn(2) # {}


\* C25: the processing of one event makes at most one payload fetch and at
\* most one start call; it fetches exactly when it classified the event as
\* text, never for an image or an unsupported file; it makes a start call only
\* for a text event whose fetch answered and for an image event; and a skipped
\* event and an event that failed before its classification make neither.
C25_SideEffectBudget ==
    \A n \in Notifs : \A i \in Handled(n) :
        LET o == log[n][i]
        IN  /\ Len(o.get_object) <= 1
            /\ Len(o.start_execution) <= 1
            /\ Cardinality(StartedFor(n, i)) <= Len(o.start_execution)
            /\ o.get_object # <<>> <=> o.fileType = "text"
            /\ o.start_execution # <<>> =>
                  \/ o.fileType = "image"
                  \/ o.fileType = "text" /\ o.get_object[1].answer.status = "ok"
            /\ o.fileType \in {"skipped", "none", "unknown"} =>
                  o.get_object = <<>> /\ o.start_execution = <<>>
            /\ ~is_allowed_event(msg[n].body[i]) => o.fileType = "skipped"
            /\ (is_allowed_event(msg[n].body[i]) /\ msg[n].body[i].key = <<>>) =>
                  o.fileType = "none"

\* Reached: a text event with one fetch and one start call followed by an
\* event without key with neither, and a skipped event with neither followed
\* by an image event with no fetch and one start call.
C25_Witness ==
    \E n1, n2 \in Notifs :
        /\ msg[n1].body = <<E_text, E_nokey>> /\ Len(log[n1]) = 1 + 1
        /\ Len(log[n1][1].get_object) = 1 /\ Len(log[n1][1].start_execution) = 1
        /\ log[n1][1 + 1].fileType = "none"
        /\ msg[n2].body = <<E_removed, E_image_copy>> /\ Len(log[n2]) = 1 + 1
        /\ log[n2][1].fileType = "skipped"
        /\ log[n2][1 + 1].get_object = <<>>
        /\ Len(log[n2][1 + 1].start_execution) = 1


(* ----------------------------- encoded keys ---------------------------- *)

\* Object keys as the storage layer URL-encodes them: a space as '+' or
\* %20, a slash, a dot or a percent sign as a percent escape.
EncodedStems ==
    { <<"a">>, <<"m", "y", "+", "d">>, <<"d", "%", "2", "F">>,
      <<"a", "%", "2", "5">> }

EncodedDots == { <<".">>, <<"%", "2", "E">>, <<"%", "2", "e">> }

EncodedExtensions ==
    { <<"t", "x", "t">>, <<"p", "n", "g">>, <<"p", "d", "f">>, <<"M", "D">> }

EncodedTails == { <<>>, <<"+">> }

EncodedKeys ==
    {s \o d \o x \o t : s \in EncodedStems, d \in EncodedDots,
                        x \in EncodedExtensions, t \in EncodedTails}

EncodedBodies ==
    { <<S3Record("aws:s3", "ObjectCreated:Put", UploadBucket, k)>> : k \in EncodedKeys }

\* The Dispatcher handling one notification whose key is any of EncodedKeys.
NextDecoder ==
    \/ \E body \in EncodedBodies : S3Notify(1, body)
    \/ Receive(1)
    \/ \E got \in GetObjectResults, started \in StartExecutionResults :
          HandleRecord(1, got, started)

DecoderSpec == Init /\ [][NextDecoder]_vars

\* The decoding alone: the file type is the one determine_file_type gives the
\* decoded key, the payload is fetched under the decoded key, and the Image
\* Workflow gets the decoded key as objectKey.
C26_DecodedKeyUsed ==
    \A n \in Notifs : \A i \in Handled(n) :
        LET o == log[n][i]
            decoded == unquote_plus(msg[n].body[i].key)
        IN  /\ o.fileType \notin {"none", "skipped"} =>
                  o.fileType = determine_file_type(decoded)
            /\ o.get_object # <<>> => o.get_object[1].Key = decoded
            /\ (o.start_execution # <<>> /\ o.fileType = "image") =>
                  o.start_execution[1].input = [objectKey |-> decoded]

\* C26: classification, the payload fetch and the Image Workflow's objectKey
\* all use the decoded key, and an event whose encoded key hides its suffix
\* is classified by the suffix of the decoded key.
C26_DecodeBeforeUse ==
    /\ C26_DecodedKeyUsed
    /\ \A n \in Notifs : \A i \in Handled(n) :
          log[n][i].fileType \notin {"none", "skipped"} =>
             log[n][i].fileType = SuffixKind(unquote_plus(msg[n].body[i].key))


\* C27: a record is skipped exactly when it is not an object-creation event,
\* and the skip is no error: after it the invocation is running at the next
\* record, which it can handle. Every record handled is the outcome of the
\* event at its place in the notification: an object-creation event with a
\* key is classified by its decoded key and, when its start was accepted, has
\* an execution of its kind; the executions of a notification are in the
\* order of its events; and an invocation that succeeded handled every event
\* of the notification in its one delivery.
C27_SkipAndContinue ==
    /\ [](\A n \in Notifs :
            /\ \A i \in Handled(n) :
                  LET r == msg[n].body[i]
                      o == log[n][i]
                  IN  /\ ~is_allowed_event(r) <=> o.fileType = "skipped"
                      /\ o.fileType = "skipped" => o.error = "none"
                      /\ CreatedWithKey(r) =>
                            /\ o.fileType = determine_file_type(unquote_plus(r.key))
                            /\ o.error = "none" =>
                                  \E e \in Execs :
                                     /\ StartedFor(n, i) = {e}
                                     /\ execs[e].arn = KindArn(r)
                      /\ i < Len(log[n]) => o.error = "none"
            /\ \A i, j \in Handled(n) : \A e \in StartedFor(n, i), f \in StartedFor(n, j) :
                  i < j => e < f
            /\ inv[n].status = "running" =>
                  /\ inv[n].idx = Len(log[n]) + 1
                  /\ inv[n].idx <= Len(msg[n].body) =>
                        ENABLED (\E got \in GetObjectResults :
                                    HandleRecord(n, got, "accepted"))
            /\ inv[n].status = "succeeded" =>
                  /\ Len(log[n]) = Len(msg[n].body)
                  /\ deliveries[n] = 1)
    /\ [][\A n \in Notifs :
             (Len(log'[n]) = Len(log[n]) + 1
                /\ log'[n][Len(log'[n])].fileType = "skipped") =>
                   /\ inv'[n].status = "running"
                   /\ inv'[n].idx = inv[n].idx + 1]_vars

\* Reached: of a notification with a removal, a text creation, a removal and
\* an image creation, the one delivery skipped the two removals and started
\* the Text Workflow and then the Image Workflow.
C27_Witness ==
    /\ msg[1].body = <<E_removed, E_text, E_removed, E_image>>
    /\ inv[1].status = "succeeded" /\ deliveries[1] = 1
    /\ log[1][1].fileType = "skipped" /\ log[1][1 + 1 + 1].fileType = "skipped"
    /\ \E e \in StartedFor(1, 1 + 1), f \in StartedFor(1, 1 + 1 + 1 + 1) :
          IsText(execs[e]) /\ IsImage(execs[f]) /\ e < f


\* C28: when the i-th event of a notification fails, the invocation has
\* failed with that event's error, the events before it were handled without
\* error and no event after it is handled, then or later in that delivery;
\* every start the engine accepted for an earlier event still has its
\* execution; no step removes or rewinds an execution, a step of the queue
\* (the message becoming visible, its dead-lettering, the alarm) changes
\* none, and an execution that is still running can take its next step
\* wherever the notification is.
C28_FailureIsNotAtomic ==
    /\ [](\A n \in Notifs :
            /\ inv[n].status = "failed" =>
                  /\ Len(log[n]) = inv[n].idx
                  /\ inv[n].idx > 0 =>
                        /\ log[n][inv[n].idx].error = inv[n].error
                        /\ inv[n].error # "none"
                  /\ \A j \in 1..(inv[n].idx - 1) : log[n][j].error = "none"
                  /\ \A e \in StartedIn(n) : execs[e].src[1 + 1] < inv[n].idx
            /\ Cardinality(StartedIn(n)) = Cardinality(Accepted(n))
            /\ \A e \in StartedIn(n) :
                  Running(execs[e]) => ENABLED ExecutionStep(e))
    /\ [][ /\ \A n \in Notifs :
                inv[n].status = "failed" => inv'[n] = inv[n] /\ log'[n] = log[n]
           /\ \A e \in Execs :
                /\ e \in 1..Len(execs')
                /\ execs'[e].src = execs[e].src
                /\ Terminal(execs[e]) => execs'[e] = execs[e]
                /\ execs'[e].status = "RUNNING" => execs[e].status = "RUNNING"
           /\ (msg' # msg \/ alarm' # alarm) => execs' = execs ]_vars

\* Reached: the second event of a notification failed and the notification
\* was dead-lettered, and the execution started for its first event went on
\* to its decision.
C28_Witness ==
    /\ msg[1].body = <<E_text, E_nokey>>
    /\ msg[1].loc = "dlq"
    /\ inv[1].status = "failed" /\ inv[1].idx = 1 + 1
    /\ \E e \in StartedFor(1, 1) : Rejected(execs[e])


\* C29: a notification is acknowledged exactly when its invocation
\* succeeded, and then every object-creation event of it was handled without
\* error, was classified as text or image and has the one execution its
\* accepted start created, on the state machine of its kind. A record with a
\* missing key, an unsupported file type, a failed payload fetch or a start
\* call that was not accepted has an error, and an error of any record leaves
\* the invocation failed and the message unacknowledged.
C29_NoSwallowedFailure ==
    \A n \in Notifs :
        /\ msg[n].loc = "deleted" <=> inv[n].status = "succeeded"
        /\ inv[n].status = "succeeded" =>
              \A i \in 1..Len(msg[n].body) :
                 is_allowed_event(msg[n].body[i]) =>
                    /\ i \in Handled(n)
                    /\ log[n][i].error = "none"
                    /\ log[n][i].fileType \in {"text", "image"}
                    /\ \E e \in Execs :
                          /\ StartedFor(n, i) = {e}
                          /\ execs[e].arn = KindArn(msg[n].body[i])
        /\ \A i \in Handled(n) :
              LET o == log[n][i]
              IN  /\ (\/ o.fileType \in {"none", "unknown"}
                      \/ o.get_object # <<>> /\ o.get_object[1].answer.status # "ok"
                      \/ o.start_execution # <<>> /\ StartedFor(n, i) = {})
                        => o.error # "none"
                  /\ o.error # "none" =>
                        /\ inv[n].status = "failed"
                        /\ inv[n].error = o.error
                        /\ msg[n].loc \in {"inflight", "queue", "dlq"}

\* Reached: a notification with a text and an image event is acknowledged,
\* with an execution of the text state machine for the first event and one of
\* the image state machine for the second.
C29_Witness ==
    /\ msg[1].body = <<E_text, E_image>>
    /\ msg[1].loc = "deleted"
    /\ \E e \in StartedFor(1, 1) : IsText(execs[e])
    /\ \E e \in StartedFor(1, 1 + 1) : IsImage(execs[e])


(* --------------------------- upload endpoint --------------------------- *)

NextEndpoint ==
    \E event \in ApiEvents, uuid4 \in Uuids, signed \in SignResults :
        GeneratePresignedUrl(event, uuid4, signed)

EndpointSpec == Init /\ [][NextEndpoint]_vars

\* The request carries no fileName or no contentType: it has no body, or the
\* field is absent from its JSON object or empty.
MissingParameters(event) ==
    \/ event.body \in {"absent", "null"}
    \/ event.body = "json" /\ (\/ not_field(event.json, "fileName")
                               \/ not_field(event.json, "contentType"))

\* C30: a request without fileName or contentType (missing or empty) gets
\* HTTP 400 and no presigned URL is generated for it; any other request with
\* a JSON body gets, when the signer signs, HTTP 200 with an objectKey that
\* is a random prefix, '-' and the submitted fileName, so that it ends with
\* the fileName and with the same configured suffix, if any.
C30_PresignedUploadEndpoint ==
    \A x \in 1..Len(api) :
        LET event == api[x].event
            outcome == api[x].outcome
        IN  /\ MissingParameters(event) =>
                  /\ HttpStatus(outcome) = 400
                  /\ outcome.generate_presigned_url = <<>>
            /\ (event.body = "json" /\ ~MissingParameters(event)
                  /\ outcome.raised # "ClientError") =>
                  /\ HttpStatus(outcome) = 200
                  /\ \E uuid4 \in Uuids :
                        outcome.body.objectKey = uuid4 \o <<"-">> \o event.json.fileName
                  /\ EndsWith(outcome.body.objectKey, event.json.fileName)
                  /\ SuffixKind(outcome.body.objectKey) = SuffixKind(event.json.fileName)


(* ---------------------- events of other event sources ------------------ *)

\* Object-creation events whose eventSource is missing (get answers None) or
\* is not 'aws:s3'; the last one has no key.
E_nosource == S3Record(None, "ObjectCreated:Put", UploadBucket, K_txt)
E_foreign == S3Record("aws:sns", "ObjectCreated:Put", UploadBucket, K_png)
E_foreign_nokey == S3Record("custom", "ObjectCreated:Copy", UploadBucket, <<>>)

SourceBodies ==
    { <<E_nosource>>, <<E_foreign>>, <<E_foreign_nokey, E_image>>,
      <<E_nosource, E_nokey>>, <<E_removed>>, <<E_text>> }

\* The queue and the Dispatcher with notifications that hold such events.
NextSource ==
    \/ \E n \in Notifs, body \in SourceBodies : S3Notify(n, body)
    \/ \E n \in Notifs : Receive(n)
    \/ \E n \in Notifs : MoveToDeadLetterQueue(n)
    \/ \E n \in Notifs, got \in GetObjectResults, started \in StartExecutionResults :
          HandleRecord(n, got, started)
    \/ \E n \in Notifs : HandlerReturn(n)
    \/ \E n \in Notifs : VisibilityTimeout(n)
    \/ EvaluateDlqAlarm

SourceSpec == Init /\ [][NextSource]_vars

\* An object-creation event by its name whose source is not the storage layer.
CreatedElsewhere(r) ==
    r.eventName \in ObjectCreatedNames /\ r.eventSource # "aws:s3"

\* C31: an event whose eventName starts with "ObjectCreated:" and whose
\* eventSource is missing or not "aws:s3" is handled exactly like a
\* non-creation event: it is skipped without error, with no fetch, no start
\* call and no execution, also when it has no key; an execution exists only
\* for an event with both the source "aws:s3" and a creation name; and a
\* notification with no other events is never failed or dead-lettered and is
\* acknowledged when its invocation ends.
C31_SkipDependsOnSource ==
    \A n \in Notifs :
        /\ \A i \in Handled(n) :
              /\ CreatedElsewhere(msg[n].body[i]) =>
                    /\ log[n][i] = Skipped
                    /\ StartedFor(n, i) = {}
              /\ StartedFor(n, i) # {} =>
                    /\ msg[n].body[i].eventSource = "aws:s3"
                    /\ msg[n].body[i].eventName \in ObjectCreatedNames
        /\ (msg[n].loc # "none"
              /\ \A i \in 1..Len(msg[n].body) :
                    CreatedElsewhere(msg[n].body[i]) \/ msg[n].body[i] = E_removed) =>
              /\ inv[n].status # "failed"
              /\ msg[n].loc \in {"queue", "inflight", "deleted"}
              /\ inv[n].status = "succeeded" <=> msg[n].loc = "deleted"
              /\ StartedIn(n) = {}

\* Reached: a notification whose only event has no eventSource is
\* acknowledged with nothing started, and in another one the event of a
\* foreign source, which has no key, was skipped and the image event after it
\* started its workflow.
C31_Witness ==
    \E n1, n2 \in Notifs :
        /\ msg[n1].body = <<E_nosource>> /\ msg[n1].loc = "deleted"
        /\ log[n1] = <<Skipped>> /\ StartedIn(n1) = {}
        /\ msg[n2].body = <<E_foreign_nokey, E_image>> /\ msg[n2].loc = "deleted"
        /\ log[n2][1] = Skipped
        /\ StartedFor(n2, 1 + 1) # {}


(* --------------------------- the configuration ------------------------- *)

\* What os.environ.get answers for a workflow identifier: the identifier,
\* None when the variable is not set, or an empty value.
ArnSettings(arn) == {arn, None, ""}

\* The Lambda deployed with any setting of its two variables.
ConfigInit ==
    /\ TEXT_WORKFLOW_ARN \in ArnSettings(TextStateMachineArn)
    /\ IMAGE_WORKFLOW_ARN \in ArnSettings(ImageStateMachineArn)
    /\ msg = [n \in Notifs |-> NoMessage]
    /\ inv = [n \in Notifs |-> NoInvocation]
    /\ log = [n \in Notifs |-> <<>>]
    /\ deliveries = [n \in Notifs |-> 0]
    /\ execs = <<>>
    /\ alarm = [state |-> "OK", notified |-> 0]
    /\ now = 0
    /\ api = <<>>

ConfigSpec == ConfigInit /\ [][NextQueue]_vars

\* C32: when the identifier of the Text or of the Image workflow is not
\* configured, every invocation has failed on the configuration before its
\* first record: nothing is in its log (no event skipped, no fetch, no start
\* call), no execution exists, and no notification is acknowledged, whatever
\* its events are.
C32_ConfigurationGuard ==
    (TEXT_WORKFLOW_ARN \in {None, ""} \/ IMAGE_WORKFLOW_ARN \in {None, ""}) =>
        /\ execs = <<>>
        /\ \A n \in Notifs :
              /\ log[n] = <<>>
              /\ msg[n].loc # "deleted"
              /\ deliveries[n] >= 1 =>
                    inv[n] = [status |-> "failed", idx |-> 0,
                              error |-> "WorkflowArnNotSet"]

\* Reached: with only the Text identifier missing, a notification with one
\* image event and a notification with one skippable event both failed on
\* the configuration, and the first one was dead-lettered.
C32_Witness ==
    /\ TEXT_WORKFLOW_ARN = None /\ IMAGE_WORKFLOW_ARN = ImageStateMachineArn
    /\ \E n1, n2 \in Notifs :
          /\ msg[n1].body = <<E_image>> /\ msg[n1].loc = "dlq"
          /\ msg[n2].body = <<E_removed>> /\ inv[n2].error = "WorkflowArnNotSet"


(* ------------------------ the shape of the event ----------------------- *)

\* obj.get('Records', []) of a JSON object.
get_Records(obj) == IF "Records" \in DOMAIN obj THEN obj.Records ELSE <<>>

\* json.loads(record.get('body', '{}')) of an SQS record, the body given by
\* the object its text encodes.
loads_body(record) == IF "body" \in DOMAIN record THEN record.body ELSE JsonObject({}, <<>>)

\* The S3 records the loops of lambda_handler go through, in their order:
\* those of the body of each SQS record of the event.
RECURSIVE s3_records(_)
s3_records(sqs_records) ==
    IF sqs_records = <<>> THEN <<>>
    ELSE get_Records(loads_body(Head(sqs_records))) \o s3_records(Tail(sqs_records))

upload_events(event) == s3_records(get_Records(event))

\* An SQS record with the given body, and the event of a batch of one.
SqsRecord(body) == [body |-> body]
BatchOfOne(record) == [Records |-> <<record>>]

\* Events with no upload event: no 'Records' in the event, an empty batch, an
\* SQS record without body, a body without 'Records' (as the storage layer's
\* test message has), and a body with an empty list.
ZeroEventShapes ==
    { JsonObject({}, <<>>),
      [Records |-> <<>>],
      BatchOfOne(JsonObject({}, <<>>)),
      BatchOfOne(SqsRecord([Event |-> "s3:TestEvent"])),
      BatchOfOne(SqsRecord([Records |-> <<>>])) }

EventShapes ==
    ZeroEventShapes
        \cup {BatchOfOne(SqsRecord([Records |-> body])) :
                 body \in { <<E_text>>, <<E_nokey>>, <<E_removed>> }}

\* A notification arrives whose delivery invokes the handler with this event.
SendEvent(n, event) ==
    /\ msg[n].loc = "none"
    /\ \A m \in 1..(n - 1) : msg[m].loc # "none"
    /\ msg' = [msg EXCEPT ![n] =
                 WithField([NoMessage EXCEPT !.loc = "queue",
                                             !.body = upload_events(event)],
                           "event", event)]
    /\ UNCHANGED <<env, api, inv, log, deliveries, execs, alarm, now>>

NextEventShape ==
    \/ \E n \in Notifs, event \in EventShapes : SendEvent(n, event)
    \/ \E n \in Notifs : Receive(n)
    \/ \E n \in Notifs : MoveToDeadLetterQueue(n)
    \/ \E n \in Notifs, got \in GetObjectResults, started \in StartExecutionResults :
          HandleRecord(n, got, started)
    \/ \E n \in Notifs : HandlerReturn(n)
    \/ \E n \in Notifs : VisibilityTimeout(n)
    \/ EvaluateDlqAlarm

EventShapeSpec == Init /\ [][NextEventShape]_vars

\* C33: a notification whose event has no upload events (no records in the
\* invocation, a body without a record list, an empty record list) is
\* processed successfully: its invocation handles no record, raises no error
\* and can return at once, no execution is started for it, it is delivered
\* at most once and never dead-lettered, and it is acknowledged when the
\* invocation has returned.
C33_ZeroEventsSucceed ==
    \A n \in Notifs :
        (msg[n].loc # "none" /\ msg[n].event \in ZeroEventShapes) =>
            /\ log[n] = <<>>
            /\ inv[n].status # "failed" /\ inv[n].error = "none"
            /\ StartedIn(n) = {}
            /\ deliveries[n] <= 1
            /\ msg[n].loc \in {"queue", "inflight", "deleted"}
            /\ inv[n].status = "running" => ENABLED HandlerReturn(n)
            /\ inv[n].status = "succeeded" <=> msg[n].loc = "deleted"
            /\ msg[n].loc = "queue" => deliveries[n] = 0

\* Reached: a notification whose body has no record list and one whose event
\* has no records at all are both acknowledged after one delivery, with
\* nothing handled and nothing started.
C33_Witness ==
    \E n1, n2 \in Notifs :
        /\ msg[n1].loc = "deleted" /\ msg[n2].loc = "deleted"
        /\ msg[n1].event = BatchOfOne(SqsRecord([Event |-> "s3:TestEvent"]))
        /\ msg[n2].event = JsonObject({}, <<>>)
        /\ deliveries[n1] = 1 /\ deliveries[n2] = 1
        /\ log[n1] = <<>> /\ log[n2] = <<>>
        /\ execs = <<>>

====
